---- MODULE Spec2Model ----
(***************************************************************************)
(* Model of the go-broker message broker (src/broker.go).                  *)
(*                                                                         *)
(* The broker is a goroutine (run) that owns the client set and selects    *)
(* over four channels: stop, subscribingClients, unsubscribingClients and  *)
(* messages.  Callers (Publish, Subscribe, Unsubscribe) send on these      *)
(* channels under a timeout; Close closes the stop channel.                *)
(*                                                                         *)
(* Channels.  A buffered channel is a sequence bounded by its capacity.    *)
(* A send on an unbuffered channel (capacity 0) is a rendezvous: it can    *)
(* complete only while the receiver waits in its select.  The rendezvous   *)
(* is two steps here: the sender puts the value on the empty channel       *)
(* (its call returns), which takes the channel over its capacity, and the  *)
(* receiver is then committed to that case of its select: it takes         *)
(* nothing else and nobody else can hand over until it has received.       *)
(*                                                                         *)
(* Timeouts.  The timeout is positive (1 s by default), so a send that can *)
(* complete when it is tried completes; the timer fires only while the     *)
(* send is blocked.                                                        *)
(*                                                                         *)
(* Panics.  A panic (close of a closed channel, send on a closed channel)  *)
(* is not recovered anywhere in the package: it ends the process.          *)
(***************************************************************************)
EXTENDS Integers, Sequences, FiniteSets, TLC

\* Bounds of the model.
NumThreads == 2
MaxClients == 2
MaxMessages == 2
MaxBufferSize == 1
MaxTimeout == 4

Threads == 1..NumThreads
Clients == 1..MaxClients      \* identities of the channels made by Subscribe
Msgs == 1..MaxMessages        \* identities of the messages handed to Publish

\* make(chan Client[T]): the two request channels are unbuffered.
subscribingClientsCap == 0

\* Faulty variant: the unsubscribe channel made with a buffer, make(chan Client[T], 1).
unsubscribingClientsBuffered == 0 + 1

unsubscribingClientsCap == 0

VARIABLES
    clients,               \* broker.clients: the keys of the map
    stop,                  \* broker.stop is closed
    subscribingClients,    \* broker.subscribingClients: values in the channel
    unsubscribingClients,  \* broker.unsubscribingClients
    messages,              \* broker.messages
    bufferSize,            \* cap(broker.messages)
    timeout,               \* broker.timeout
    builder,               \* the Builder value Build was called on
    actor,                 \* the position of run(): pc, msg, cur, pending
    closes,                \* per client channel: number of close() calls on it
    reading,               \* per client channel: a receiver blocked in <-client
    recv,                  \* per client channel: the messages received, in order
    call,                  \* per thread: the broker call it is in
    nextClient,            \* the next channel identity make() hands out
    nextMsg,               \* the next message identity
    crashed,               \* the process has panicked
    handles,               \* history: the clients a successful Subscribe returned
    unsubscribed,          \* history: the clients a successful Unsubscribe was given
    stable,                \* history: messages in flight whose client set is unchanged
    dropped,               \* history: <<client, msg>> deliveries that timed out
    snapshot,              \* history: per message, the client set it was broadcast to
    dequeued,              \* history: the messages run() received, in order
    raced                  \* history: two Publish calls were in progress at once

vars == <<clients, stop, subscribingClients, unsubscribingClients, messages,
          bufferSize, timeout, builder, actor, closes, reading, recv, call,
          nextClient, nextMsg, crashed, handles, unsubscribed, stable, dropped,
          snapshot, dequeued, raced>>

cfgVars == <<bufferSize, timeout, builder>>
brokerVars == <<clients, stop, subscribingClients, unsubscribingClients, messages,
                cfgVars>>
clientVars == <<closes, reading, recv>>
idVars == <<nextClient, nextMsg>>
orderVars == <<dequeued, raced>>
histVars == <<handles, unsubscribed, stable, dropped, snapshot, orderVars>>

Idle == [op |-> "idle", arg |-> 0, afterClose |-> FALSE]
AtSelect == [pc |-> "select", msg |-> 0, cur |-> 0, pending |-> {}]
NotYet == {0}     \* history: the message was not dequeued yet

Range(s) == {s[i] : i \in 1..Len(s)}
Count(x, s) == Cardinality({i \in 1..Len(s) : s[i] = x})

----------------------------------------------------------------------------
\* The builder.  A Builder is a value {timeout, bufferSize}; the setters have a
\* value receiver and return the changed copy.  Durations are in seconds.

Durations == 0..MaxTimeout        \* the arguments given to Timeout
Capacities == 0..MaxBufferSize    \* the arguments given to BufferSize

\* const defaultTimeout = time.Second
defaultTimeout == 1

\* const defaultBufferSize int = 10
defaultBufferSize == 10

\* NewBuilder: Builder[T]{defaultTimeout, defaultBufferSize}
NewBuilder == [timeout |-> defaultTimeout, bufferSize |-> defaultBufferSize]

\* Faulty variant: the setter writes both fields.
TimeoutBoth(b, d) == [b EXCEPT !.timeout = d, !.bufferSize = d]

\* Timeout: builder.timeout = timeout; return builder
Timeout(b, d) == [b EXCEPT !.timeout = d]

\* BufferSize: builder.bufferSize = bufferSize; return builder
BufferSize(b, n) == [b EXCEPT !.bufferSize = n]

\* Build: the timeout of the broker built on b and the capacity of its messages
\* channel.
Build(b) == [timeout |-> b.timeout, capacity |-> b.bufferSize]

\* The broker Build returns on b: empty map, open and empty channels, run started.
Built(b) ==
    /\ clients = {}
    /\ stop = FALSE
    /\ subscribingClients = <<>>
    /\ unsubscribingClients = <<>>
    /\ messages = <<>>
    /\ bufferSize = Build(b).capacity
    /\ timeout = Build(b).timeout
    /\ builder = b
    /\ actor = AtSelect
    /\ closes = [c \in Clients |-> 0]
    /\ reading = [c \in Clients |-> FALSE]
    /\ recv = [c \in Clients |-> <<>>]
    /\ call = [t \in Threads |-> Idle]
    /\ nextClient = 1
    /\ nextMsg = 1
    /\ crashed = FALSE
    /\ handles = {}
    /\ unsubscribed = {}
    /\ stable = {}
    /\ dropped = {}
    /\ snapshot = [m \in Msgs |-> NotYet]
    /\ dequeued = <<>>
    /\ raced = FALSE

\* The broker under study: built with the default timeout and a small buffer,
\* NewBuilder().BufferSize(n).Build().
Init == \E n \in Capacities : Built(BufferSize(NewBuilder, n))

----------------------------------------------------------------------------
\* Channel operations

\* The select of run() is committed to a case: a sender has handed a value over.
Committed ==
    \/ Len(subscribingClients) > subscribingClientsCap
    \/ Len(unsubscribingClients) > unsubscribingClientsCap
    \/ Len(messages) > bufferSize

\* Faulty variant: the buffer takes one value more than its capacity.
CanSendOver(ch, cap) == Len(ch) <= cap

\* ch <- v can complete: room in the buffer, or (unbuffered) the receiver waits.
CanSend(ch, cap) ==
    \/ Len(ch) < cap
    \/ cap = 0 /\ Len(ch) = 0 /\ actor.pc = "select" /\ ~Committed

\* Faulty variant: events are taken from the channels while a broadcast pass is
\* under way (the pass runs beside the select loop).
CanReceiveAnywhere(ch, cap) ==
    /\ Len(ch) > 0
    /\ Committed => Len(ch) > cap

\* The case <-ch of the select of run() can be taken.
CanReceive(ch, cap) ==
    /\ actor.pc = "select"
    /\ Len(ch) > 0
    /\ Committed => Len(ch) > cap

\* Faulty variant: the select of the call has no timeout case.
TimerNever(ch, cap) == FALSE

\* case <-time.After(broker.timeout) of a call's select is taken: the timeout is
\* positive, so the timer fires only while the send cannot complete.
TimerFires(ch, cap) == ~CanSend(ch, cap)

\* Faulty variant: the send of a call that timed out still happens.
SentLate(ch, v) == Append(ch, v)

\* The timeout case of a call's select was taken, so its send case was not: the
\* value v is not in the channel.
NotSent(ch, v) == ch

IsClosed(c) == closes[c] > 0

\* The call of thread t returns.
Return(t) == call' = [call EXCEPT ![t] = Idle]

\* The broadcast pass of message m has finished.
PassDone(m) ==
    /\ snapshot[m] # NotYet
    /\ ~(actor.pc = "broadcast" /\ actor.msg = m)

\* History: the client set changes (or the broker is closed) in this step, so no
\* message in flight (published, its broadcast pass not finished) has been
\* published to a client set that did not change since.
MarkChanged == stable' = {}

\* History: the broadcast pass of m goes on with the clients in rest; with none
\* left the pass has finished and m is no longer in flight.
PassGoesOn(m, rest) == stable' = IF rest = {} THEN stable \ {m} ELSE stable

----------------------------------------------------------------------------
\* Callers

\* Publish is entered: the select of Publish starts.
PublishCall(t) ==
    /\ ~crashed
    /\ call[t] = Idle
    /\ nextMsg <= MaxMessages
    /\ call' = [call EXCEPT ![t] =
                  [op |-> "Publish", arg |-> nextMsg, afterClose |-> stop]]
    /\ nextMsg' = nextMsg + 1
    /\ raced' = (raced \/ \E u \in Threads : call[u].op = "Publish")
    /\ UNCHANGED <<brokerVars, actor, clientVars, nextClient, crashed, handles,
                   unsubscribed, stable, dropped, snapshot, dequeued>>

\* case broker.messages <- message: return nil
PublishSend(t) ==
    /\ ~crashed
    /\ call[t].op = "Publish"
    /\ CanSend(messages, bufferSize)
    /\ messages' = Append(messages, call[t].arg)
    /\ stable' = IF stop THEN stable ELSE stable \cup {call[t].arg}
    /\ Return(t)
    /\ UNCHANGED <<clients, stop, subscribingClients, unsubscribingClients,
                   cfgVars, actor, clientVars, idVars, crashed, handles,
                   unsubscribed, dropped, snapshot,
                   orderVars>>

\* case <-time.After(broker.timeout): return ErrTimeout
PublishTimeout(t) ==
    /\ ~crashed
    /\ call[t].op = "Publish"
    /\ TimerFires(messages, bufferSize)
    /\ messages' = NotSent(messages, call[t].arg)
    /\ Return(t)
    /\ UNCHANGED <<clients, stop, subscribingClients, unsubscribingClients, cfgVars,
                   actor, clientVars, idVars, crashed, histVars>>

\* Subscribe is entered: client := make(Client[T])
SubscribeCall(t) ==
    /\ ~crashed
    /\ call[t] = Idle
    /\ nextClient <= MaxClients
    /\ call' = [call EXCEPT ![t] =
                  [op |-> "Subscribe", arg |-> nextClient, afterClose |-> stop]]
    /\ nextClient' = nextClient + 1
    /\ UNCHANGED <<brokerVars, actor, clientVars, nextMsg, crashed, histVars>>

\* case broker.subscribingClients <- client: return client, nil
SubscribeSend(t) ==
    /\ ~crashed
    /\ call[t].op = "Subscribe"
    /\ CanSend(subscribingClients, subscribingClientsCap)
    /\ subscribingClients' = Append(subscribingClients, call[t].arg)
    /\ handles' = handles \cup {call[t].arg}
    /\ Return(t)
    /\ UNCHANGED <<clients, stop, unsubscribingClients, messages, cfgVars,
                   actor, clientVars, idVars, crashed, unsubscribed, stable,
                   dropped, snapshot,
                   orderVars>>

\* case <-time.After(broker.timeout): return nil, ErrTimeout
SubscribeTimeout(t) ==
    /\ ~crashed
    /\ call[t].op = "Subscribe"
    /\ TimerFires(subscribingClients, subscribingClientsCap)
    /\ subscribingClients' = NotSent(subscribingClients, call[t].arg)
    /\ Return(t)
    /\ UNCHANGED <<clients, stop, unsubscribingClients, messages, cfgVars, actor,
                   clientVars, idVars, crashed, histVars>>

\* Unsubscribe(client) is entered, with a handle the caller holds.
UnsubscribeCall(t, c) ==
    /\ ~crashed
    /\ call[t] = Idle
    /\ c \in handles
    /\ call' = [call EXCEPT ![t] =
                  [op |-> "Unsubscribe", arg |-> c, afterClose |-> stop]]
    /\ UNCHANGED <<brokerVars, actor, clientVars, idVars, crashed, histVars>>

\* case broker.unsubscribingClients <- client: return nil
UnsubscribeSend(t) ==
    /\ ~crashed
    /\ call[t].op = "Unsubscribe"
    /\ CanSend(unsubscribingClients, unsubscribingClientsCap)
    /\ unsubscribingClients' = Append(unsubscribingClients, call[t].arg)
    /\ unsubscribed' = unsubscribed \cup {call[t].arg}
    /\ Return(t)
    /\ UNCHANGED <<clients, stop, subscribingClients, messages, cfgVars,
                   actor, clientVars, idVars, crashed, handles, stable,
                   dropped, snapshot,
                   orderVars>>

\* case <-time.After(broker.timeout): return ErrTimeout
UnsubscribeTimeout(t) ==
    /\ ~crashed
    /\ call[t].op = "Unsubscribe"
    /\ TimerFires(unsubscribingClients, unsubscribingClientsCap)
    /\ unsubscribingClients' = NotSent(unsubscribingClients, call[t].arg)
    /\ Return(t)
    /\ UNCHANGED <<clients, stop, subscribingClients, messages, cfgVars, actor,
                   clientVars, idVars, crashed, histVars>>

\* Close: close(broker.stop).  Closing the closed channel panics.
Close(t) ==
    /\ ~crashed
    /\ call[t] = Idle
    /\ stop' = TRUE
    /\ crashed' = stop
    /\ MarkChanged
    /\ UNCHANGED <<clients, subscribingClients, unsubscribingClients, messages,
                   cfgVars, actor, clientVars, call, idVars, handles,
                   unsubscribed, dropped, snapshot,
                   orderVars>>

----------------------------------------------------------------------------
\* Receivers on the client channels

\* A holder of the handle starts <-client.
StartRead(c) ==
    /\ ~crashed
    /\ c \in handles
    /\ ~reading[c]
    /\ reading' = [reading EXCEPT ![c] = TRUE]
    /\ UNCHANGED <<brokerVars, actor, closes, recv, call, idVars, crashed, histVars>>

\* <-client on a closed channel yields the zero value and ok = false.
ReadClosed(c) ==
    /\ ~crashed
    /\ reading[c]
    /\ IsClosed(c)
    /\ reading' = [reading EXCEPT ![c] = FALSE]
    /\ UNCHANGED <<brokerVars, actor, closes, recv, call, idVars, crashed, histVars>>

----------------------------------------------------------------------------
\* The broker loop: run()

\* Faulty variant: the subscribe case does not store the client.
AddClientForgotten(cs, c) == cs

\* broker.clients[client] = void{}
AddClient(cs, c) == cs \cup {c}

\* Faulty variant: the unsubscribe case closes the client and leaves it in the map.
DeleteClientForgotten(cs, c) == cs

\* Faulty variant: the unsubscribe case empties the map.
DeleteClientAll(cs, c) == {}

\* delete(broker.clients, client)
DeleteClient(cs, c) == cs \ {c}

\* for client := range broker.clients: the clients one broadcast pass visits.
BroadcastSet(cs) == cs

\* Faulty variant: the send case leaves the loop (a break after the first delivery).
AfterSendBreak(rest) == {}

\* Faulty variant: after a delivery the client is visited again in the same pass.
AfterSendAgain(rest) == rest \cup {actor.cur}

\* The send case of the inner select is empty: the loop goes on with the rest.
AfterSend(rest) == rest

\* Faulty variant: the timeout case leaves the loop (a break after the first drop).
AfterTimeoutBreak(rest) == {}

\* Faulty variant: after a timeout the client is tried again in the same pass.
AfterTimeoutRetry(rest) == rest \cup {actor.cur}

\* The timeout case of the inner select is empty: the loop goes on with the rest.
AfterTimeout(rest) == rest

\* Faulty variant: the inner select has no timeout case.
DeliveryTimerNever(c) == FALSE

\* case <-time.After(broker.timeout) of the inner select is taken: the timeout is
\* positive, so the timer fires only while no receiver waits on the client.
DeliveryTimerFires(c) == ~reading[c]

\* The positions run() can be in after one delivery attempt of msg m, with the
\* clients in rest still to visit (a map is ranged over in no particular order).
NextAttempts(m, rest) ==
    IF rest = {}
    THEN {AtSelect}
    ELSE {[pc |-> "broadcast", msg |-> m, cur |-> c, pending |-> rest \ {c}] : c \in rest}

\* case <-broker.stop: close all leftover clients and return.
ActorStop ==
    /\ ~crashed
    /\ actor.pc = "select"
    /\ stop
    /\ ~Committed
    /\ closes' = [c \in Clients |-> IF c \in clients THEN closes[c] + 1 ELSE closes[c]]
    /\ crashed' = (\E c \in clients : IsClosed(c))
    /\ actor' = [AtSelect EXCEPT !.pc = "done"]
    /\ UNCHANGED <<brokerVars, reading, recv, call, idVars, histVars>>

\* case client := <-broker.subscribingClients: add new client.
ActorSubscribeCase ==
    /\ ~crashed
    /\ CanReceive(subscribingClients, subscribingClientsCap)
    /\ subscribingClients' = Tail(subscribingClients)
    /\ clients' = AddClient(clients, Head(subscribingClients))
    /\ MarkChanged
    /\ UNCHANGED <<stop, unsubscribingClients, messages, cfgVars, actor,
                   clientVars, call, idVars, crashed, handles, unsubscribed,
                   dropped, snapshot,
                   orderVars>>

\* case client := <-broker.unsubscribingClients: remove and close client.
\* close(client) panics when the channel is closed already.
ActorUnsubscribeCase ==
    /\ ~crashed
    /\ CanReceive(unsubscribingClients, unsubscribingClientsCap)
    /\ LET c == Head(unsubscribingClients) IN
         /\ unsubscribingClients' = Tail(unsubscribingClients)
         /\ clients' = DeleteClient(clients, c)
         /\ closes' = [closes EXCEPT ![c] = @ + 1]
         /\ crashed' = IsClosed(c)
    /\ MarkChanged
    /\ UNCHANGED <<stop, subscribingClients, messages, cfgVars, actor, reading,
                   recv, call, idVars, handles, unsubscribed, dropped, snapshot,
                   orderVars>>

\* case msg := <-broker.messages: the broadcast pass over the clients starts.
ActorMessageCase ==
    /\ ~crashed
    /\ CanReceive(messages, bufferSize)
    /\ LET m == Head(messages) IN
         /\ messages' = Tail(messages)
         /\ snapshot' = [snapshot EXCEPT ![m] = clients]
         /\ dequeued' = Append(dequeued, m)
         /\ actor' \in NextAttempts(m, BroadcastSet(clients))
         /\ PassGoesOn(m, BroadcastSet(clients))
    /\ UNCHANGED <<clients, stop, subscribingClients, unsubscribingClients,
                   cfgVars, clientVars, call, idVars, crashed, handles,
                   unsubscribed, dropped, raced>>

\* case client <- msg: a blocked receiver takes the message.
\* A send on a closed channel panics.
ActorSend ==
    /\ ~crashed
    /\ actor.pc = "broadcast"
    /\ IF IsClosed(actor.cur)
       THEN /\ crashed' = TRUE
            /\ UNCHANGED <<actor, reading, recv, stable>>
       ELSE /\ reading[actor.cur]
            /\ recv' = [recv EXCEPT ![actor.cur] = Append(@, actor.msg)]
            /\ reading' = [reading EXCEPT ![actor.cur] = FALSE]
            /\ actor' \in NextAttempts(actor.msg, AfterSend(actor.pending))
            /\ PassGoesOn(actor.msg, AfterSend(actor.pending))
            /\ UNCHANGED crashed
    /\ UNCHANGED <<brokerVars, closes, call, idVars, handles, unsubscribed,
                   dropped, snapshot,
                   orderVars>>

\* case <-time.After(broker.timeout): no receiver came, the message is discarded
\* for this client.
ActorSendTimeout ==
    /\ ~crashed
    /\ actor.pc = "broadcast"
    /\ ~IsClosed(actor.cur)
    /\ DeliveryTimerFires(actor.cur)
    /\ dropped' = dropped \cup {<<actor.cur, actor.msg>>}
    /\ actor' \in NextAttempts(actor.msg, AfterTimeout(actor.pending))
    /\ PassGoesOn(actor.msg, AfterTimeout(actor.pending))
    /\ UNCHANGED <<brokerVars, clientVars, call, idVars, crashed, handles,
                   unsubscribed, snapshot,
                   orderVars>>

\* One step of run().
ActorNext ==
    \/ ActorStop
    \/ ActorSubscribeCase
    \/ ActorUnsubscribeCase
    \/ ActorMessageCase
    \/ ActorSend
    \/ ActorSendTimeout

----------------------------------------------------------------------------
Next ==
    \/ \E t \in Threads : PublishCall(t)
    \/ \E t \in Threads : PublishSend(t)
    \/ \E t \in Threads : PublishTimeout(t)
    \/ \E t \in Threads : SubscribeCall(t)
    \/ \E t \in Threads : SubscribeSend(t)
    \/ \E t \in Threads : SubscribeTimeout(t)
    \/ \E t \in Threads, c \in Clients : UnsubscribeCall(t, c)
    \/ \E t \in Threads : UnsubscribeSend(t)
    \/ \E t \in Threads : UnsubscribeTimeout(t)
    \/ \E t \in Threads : Close(t)
    \/ \E c \in Clients : StartRead(c)
    \/ \E c \in Clients : ReadClosed(c)
    \/ ActorNext

Spec == Init /\ [][Next]_vars

----------------------------------------------------------------------------
\* The use of the builder: a builder value is changed by its setters and brokers
\* are built from it.  The state is the builder and the last broker built.

\* Everything of a broker but its configuration.
runVars == <<clients, stop, subscribingClients, unsubscribingClients, messages,
             actor, clientVars, call, idVars, crashed, histVars>>

\* New(): NewBuilder().Build()
New == Built(NewBuilder)

\* builder = builder.Timeout(d)
SetTimeout(d) ==
    /\ builder' = Timeout(builder, d)
    /\ UNCHANGED <<bufferSize, timeout, runVars>>

\* builder = builder.BufferSize(n)
SetBufferSize(n) ==
    /\ builder' = BufferSize(builder, n)
    /\ UNCHANGED <<bufferSize, timeout, runVars>>

\* broker = builder.Build(): a new broker.
BuildBroker ==
    /\ timeout' = Build(builder).timeout
    /\ bufferSize' = Build(builder).capacity
    /\ UNCHANGED <<builder, runVars>>

BuilderNext ==
    \/ \E d \in Durations : SetTimeout(d)
    \/ \E n \in Capacities : SetBufferSize(n)
    \/ BuildBroker

BuilderSpec == New /\ [][BuilderNext]_vars

----------------------------------------------------------------------------
TypeOK ==
    /\ clients \subseteq Clients
    /\ stop \in BOOLEAN
    /\ actor.pc \in {"select", "broadcast", "done"}
    /\ \A c \in Clients : closes[c] \in 0..2
    /\ Len(messages) <= bufferSize + 1

----------------------------------------------------------------------------
\* What a step shows of a call: that it returns, and with which result.

\* The call of thread t returns in this step.
Returns(t) == call[t] # Idle /\ call'[t] = Idle

\* The send of the call of thread t completes in this step.
SendCompletes(t) ==
    CASE call[t].op = "Publish" -> messages' = Append(messages, call[t].arg)
      [] call[t].op = "Subscribe" -> subscribingClients' = Append(subscribingClients, call[t].arg)
      [] call[t].op = "Unsubscribe" -> unsubscribingClients' = Append(unsubscribingClients, call[t].arg)
      [] OTHER -> FALSE

\* The error the returning call of thread t reports: the package has nil and
\* ErrTimeout, and no error for a closed broker.
Result(t) == IF SendCompletes(t) THEN "nil" ELSE "ErrTimeout"

\* The broadcast pass of message m finishes in this step.
PassEnds(m) == ~PassDone(m) /\ PassDone(m)'

----------------------------------------------------------------------------
\* The claims

\* C1: a message published to a client set that does not change until its
\* broadcast pass has finished (no subscribe, unsubscribe or close in between) is
\* received exactly once by every client of the set whose delivery did not time
\* out; and no client ever holds a message twice.
C1_DeliveryToAllLive ==
    /\ [](\A c \in Clients, m \in Msgs : Count(m, recv[c]) <= 1)
    /\ [][\A m \in stable : PassEnds(m) =>
            \A c \in clients :
                <<c, m>> \notin dropped' => Count(m, recv'[c]) = 1]_vars

\* C1 witness: a pass over an unchanged set of two clients is under way, and one
\* of them has received the message.
C1_Witness ==
    /\ actor.pc = "broadcast"
    /\ actor.msg \in stable
    /\ Cardinality(clients) = 2
    /\ \E c \in clients : actor.msg \in Range(recv[c])

\* C2: when the delivery of m to a client times out, m is dropped for that client
\* only: the client was not ready to receive, nothing that was delivered is taken
\* back, the clients still to visit are still visited, and Publish(m) has
\* returned; at the end of the pass every client of the set has received m or
\* has timed out itself.
C2_TimeoutIsolation ==
    [][/\ \A c \in Clients, m \in Msgs :
            (<<c, m>> \in dropped' /\ <<c, m>> \notin dropped) =>
                /\ ~reading[c]
                /\ dropped' = dropped \cup {<<c, m>>}
                /\ recv' = recv
                /\ \A t \in Threads : ~(call[t].op = "Publish" /\ call[t].arg = m)
                /\ \A d \in actor.pending :
                      /\ actor'.pc = "broadcast"
                      /\ actor'.msg = m
                      /\ d \in actor'.pending \cup {actor'.cur}
       /\ \A m \in Msgs : PassEnds(m) =>
            \A c \in snapshot'[m] :
                <<c, m>> \in dropped' \/ m \in Range(recv'[c])]_vars

\* C2 witness: one pass dropped the message for one client and delivered it to
\* another.
C2_Witness ==
    \E m \in Msgs, c \in Clients, d \in Clients :
        /\ PassDone(m)
        /\ {c, d} \subseteq snapshot[m]
        /\ <<c, m>> \in dropped
        /\ m \in Range(recv[d])

\* C3: after Close the loop of run() ends (it is never stuck before it has
\* returned), and when it has ended every client a Subscribe returned is closed.
C3_Shutdown ==
    stop =>
        /\ actor.pc = "done" \/ ENABLED ActorNext
        /\ actor.pc = "done" => \A c \in handles : IsClosed(c)

\* C4: a Publish issued after Close has returned fails with the Closed condition,
\* and no Publish is accepted once the broker is closed.
C4_PublishAfterClose ==
    [][\A t \in Threads :
          (call[t].op = "Publish" /\ Returns(t) /\ stop) =>
              /\ Result(t) # "nil"
              /\ call[t].afterClose => Result(t) = "ErrClosed"]_vars

\* C5: a Subscribe issued after Close has returned fails with the Closed
\* condition and hands out no client.
C5_SubscribeAfterClose ==
    [][\A t \in Threads :
          (call[t].op = "Subscribe" /\ call[t].afterClose /\ Returns(t)) =>
              /\ Result(t) = "ErrClosed"
              /\ handles' = handles
              /\ subscribingClients' = subscribingClients]_vars

\* C6: of any number of Close calls the first closes the broker and every other
\* one returns without a panic.
C6_IdempotentClose ==
    [][\A t \in Threads : Close(t) => (stop' /\ ~crashed')]_vars

\* C7: while the broker runs, Unsubscribe calls never make the process panic and
\* never close a client channel a second time.
C7_RepeatedUnsubscribe ==
    ~stop => (~crashed /\ \A c \in Clients : closes[c] <= 1)

\* C8: when run() has returned, every client a Subscribe returned has been
\* closed exactly once, and an Unsubscribe issued after Close has returned fails
\* with the Closed condition.
C8_CloseOncePerHandle ==
    /\ [](actor.pc = "done" => \A c \in handles : closes[c] = 1)
    /\ [][\A t \in Threads :
            (call[t].op = "Unsubscribe" /\ call[t].afterClose /\ Returns(t)) =>
                Result(t) = "ErrClosed"]_vars

\* C9: once Unsubscribe(c) has returned nil, nothing is delivered to c any more
\* (so no message published afterwards is), and a read on c that returns yields
\* the end of the stream.
C9_UnsubscribePreventsDelivery ==
    [][\A c \in unsubscribed :
          /\ recv'[c] = recv[c]
          /\ (reading[c] /\ ~reading'[c]) => IsClosed(c)]_vars

\* C9 witness: c received a message, was unsubscribed and closed, and a later
\* message was broadcast without it.
C9_Witness ==
    \E c \in unsubscribed, m \in Msgs :
        /\ IsClosed(c)
        /\ recv[c] # <<>>
        /\ PassDone(m)
        /\ snapshot[m] # {}
        /\ c \notin snapshot[m]
        /\ \A k \in Range(recv[c]) : k < m

\* The clients whose Subscribe has returned nil and for which no Unsubscribe has
\* been entered or has returned nil.
Acked ==
    {c \in handles :
        /\ c \notin unsubscribed
        /\ \A t \in Threads : ~(call[t].op = "Unsubscribe" /\ call[t].arg = c)}

\* C10: every broadcast pass that starts visits every client whose Subscribe has
\* returned nil before (and that nobody has unsubscribed since).
C10_SubscribeAck ==
    [][\A m \in Msgs :
          (snapshot[m] = NotYet /\ snapshot'[m] # NotYet) =>
              /\ Acked \subseteq snapshot'[m]
              /\ Acked # {} =>
                    /\ actor'.pc = "broadcast"
                    /\ actor'.msg = m
                    /\ Acked \subseteq actor'.pending \cup {actor'.cur}]_vars

\* C10 witness: a pass over a set holding two returned clients is under way.
C10_Witness ==
    \E m \in Msgs :
        /\ actor.pc = "broadcast"
        /\ actor.msg = m
        /\ Cardinality(snapshot[m] \cap handles) = 2

\* s is a subsequence of t: s is t with some elements left out.
RECURSIVE IsSubseq(_, _)
IsSubseq(s, t) ==
    IF s = <<>> THEN TRUE
    ELSE IF t = <<>> THEN FALSE
    ELSE IF Head(s) = Head(t) THEN IsSubseq(Tail(s), Tail(t))
    ELSE IsSubseq(s, Tail(t))

Increasing(s) == \A i, j \in 1..Len(s) : i < j => s[i] < s[j]

C12_AcceptedIsBroadcast ==
    [][(~stop /\ stop' /\ messages # <<>>) => ~(ENABLED ActorStop)']_vars

\* The call thread t is in returns: its send completes or its timer fires.
CallStep(t) ==
    \/ PublishSend(t)
    \/ PublishTimeout(t)
    \/ SubscribeSend(t)
    \/ SubscribeTimeout(t)
    \/ UnsubscribeSend(t)
    \/ UnsubscribeTimeout(t)

\* C13: no caller is blocked for good: in every state of the running process
\* (a panic ends the process and its callers with it), every call in progress
\* can return at once, with nil or with ErrTimeout.
C13_NoCallerBlocksForever ==
    \A t \in Threads :
        (call[t] # Idle /\ ~crashed) => ENABLED (CallStep(t) /\ call'[t] = Idle)

\* C13 witness: run() has returned after Close, one thread is in Publish with
\* the queue full and the other in Subscribe: neither send can ever complete.
C13_Witness ==
    /\ actor.pc = "done"
    /\ ~crashed
    /\ bufferSize > 0
    /\ Len(messages) = bufferSize
    /\ \E t, u \in Threads :
          /\ call[t].op = "Publish"
          /\ call[u].op = "Subscribe"

\* Publish(m) has returned ErrTimeout: m was handed to a call that has returned,
\* and m is neither in the queue nor was it dequeued.
TimedOutMsg(m) ==
    /\ m < nextMsg
    /\ \A t \in Threads : ~(call[t].op = "Publish" /\ call[t].arg = m)
    /\ m \notin Range(messages)
    /\ snapshot[m] = NotYet

\* C14: a call that returns ErrTimeout leaves the broker as it was.  Publish: the
\* message is not enqueued, stays out of the queue for good and is never
\* received by any client.  Subscribe: its client is not handed to run() and is
\* never in the client set.  Unsubscribe: the client set and the state of every
\* client channel are unchanged.
C14_TimeoutHasNoEffect ==
    /\ [](\A m \in Msgs : TimedOutMsg(m) =>
              /\ \A c \in Clients : m \notin Range(recv[c])
              /\ actor.msg # m)
    /\ [](\A c \in Clients : c \notin handles =>
              /\ c \notin clients
              /\ c \notin Range(subscribingClients)
              /\ ~IsClosed(c))
    /\ [][/\ \A m \in Msgs : TimedOutMsg(m) => TimedOutMsg(m)'
          /\ \A t \in Threads :
                /\ PublishTimeout(t) =>
                      /\ \A m \in Msgs : call[t].arg = m => TimedOutMsg(m)'
                      /\ UNCHANGED <<brokerVars, clientVars, actor, dequeued>>
                /\ SubscribeTimeout(t) =>
                      /\ call[t].arg \notin handles'
                      /\ UNCHANGED <<brokerVars, clientVars, actor>>
                /\ UnsubscribeTimeout(t) =>
                      UNCHANGED <<brokerVars, clientVars, actor>>]_vars

\* C14 witness: Publish of one message and a Subscribe have timed out, and a
\* later message (the retry) was accepted and received by a client.
C14_Witness ==
    \E m, k \in Msgs, c, d \in Clients :
        /\ TimedOutMsg(m)
        /\ m < k
        /\ recv[c] = <<k>>
        /\ d < nextClient
        /\ d \notin handles
        /\ \A t \in Threads : call[t] = Idle

\* C15: a message whose delivery to a client timed out is never received by
\* that client; a client channel stores nothing: a client receives a message
\* only while it waits in a read, handed over by the pass of that message that
\* is under way, so a read started after the timeout does not find it.
C15_NoDeliveryRetries ==
    /\ [](\A c \in Clients, m \in Msgs :
              <<c, m>> \in dropped => m \notin Range(recv[c]))
    /\ [][\A c \in Clients : recv'[c] # recv[c] =>
              /\ reading[c]
              /\ actor.pc = "broadcast"
              /\ actor.cur = c
              /\ <<c, actor.msg>> \notin dropped
              /\ recv'[c] = Append(recv[c], actor.msg)]_vars

\* C15 witness: the delivery of m to c timed out, c started to read afterwards
\* and has received the next message and nothing else.
C15_Witness ==
    \E c \in Clients, m, k \in Msgs :
        /\ <<c, m>> \in dropped
        /\ dequeued = <<m, k>>
        /\ recv[c] = <<k>>

\* C16: New() gives a broker with a timeout of 1 second and a message buffer of
\* capacity 10; Timeout(d) sets the timeout of the builder to d and leaves its
\* buffer size alone, BufferSize(n) sets the buffer size to n and leaves the
\* timeout alone, neither touches a broker already built; Build gives a new
\* broker whose timeout and buffer capacity are the two values of the builder.
C16_Configuration ==
    /\ timeout = 1
    /\ bufferSize = 10
    /\ [][/\ \A d \in Durations : SetTimeout(d) =>
                /\ builder' = [timeout |-> d, bufferSize |-> builder.bufferSize]
                /\ UNCHANGED <<timeout, bufferSize>>
          /\ \A n \in Capacities : SetBufferSize(n) =>
                /\ builder' = [timeout |-> builder.timeout, bufferSize |-> n]
                /\ UNCHANGED <<timeout, bufferSize>>
          /\ BuildBroker =>
                /\ timeout' = builder.timeout
                /\ bufferSize' = builder.bufferSize
                /\ builder' = builder]_vars

\* C16 witness: a broker was built with both values set, and the builder was
\* changed again afterwards.
C16_Witness ==
    /\ timeout = MaxTimeout
    /\ bufferSize = 0
    /\ builder = [timeout |-> 0, bufferSize |-> MaxBufferSize]

\* C17: run() handles one event at a time.  While a broadcast pass is under way
\* the client set is the one the pass started with, and no step changes it,
\* closes a client channel, takes a request or a message from a channel, or
\* ends run(): a Subscribe, Unsubscribe or Close made meanwhile takes effect
\* after the pass.  The pass stays with its message until it has visited all its
\* clients, and a client receives a message only if it was in the client set
\* when the message was dequeued.
C17_SerializedEvents ==
    /\ [](\A c \in Clients, m \in Msgs : m \in Range(recv[c]) => c \in snapshot[m])
    /\ [](actor.pc = "broadcast" =>
              /\ clients = snapshot[actor.msg]
              /\ actor.pending \cup {actor.cur} \subseteq clients)
    /\ [][actor.pc = "broadcast" =>
              /\ clients' = clients
              /\ closes' = closes
              /\ actor'.pc # "done"
              /\ Len(subscribingClients') >= Len(subscribingClients)
              /\ Len(unsubscribingClients') >= Len(unsubscribingClients)
              /\ Len(messages') >= Len(messages)
              /\ dequeued' = dequeued
              /\ (actor' # actor /\ actor'.pc = "broadcast") =>
                    /\ actor'.msg = actor.msg
                    /\ actor'.pending \cup {actor'.cur} \subseteq actor.pending]_vars

\* C17 witness: during a pass over two clients Close has been called, an
\* Unsubscribe of a client of the pass and a Subscribe wait for run(), and a
\* message waits in the queue.
C17_Witness ==
    /\ actor.pc = "broadcast"
    /\ Cardinality(clients) = 2
    /\ stop
    /\ ~crashed
    /\ ~IsClosed(actor.cur)
    /\ messages # <<>>
    /\ \E t \in Threads : call[t].op = "Unsubscribe" /\ call[t].arg \in clients

\* The client c has been subscribed: Subscribe has returned it and run() has
\* taken it from the channel.
Subscribed(c) == c \in handles /\ c \notin Range(subscribingClients)

\* C18: in every state a client is in the client set of run() if and only if it
\* has been subscribed and its channel is not closed, also when run() has
\* handled the stop signal.
C18_SubscriberSetInvariant ==
    \A c \in Clients : c \in clients <=> (Subscribed(c) /\ ~IsClosed(c))

\* C19: run() never tries to send to a client whose channel is closed: no client
\* a broadcast pass visits or has still to visit is closed, and no send of
\* run() panics.
C19_NoSendToClosed ==
    /\ [](actor.pc = "broadcast" =>
              \A c \in actor.pending \cup {actor.cur} : ~IsClosed(c))
    /\ [][ActorSend => ~crashed']_vars

\* C19 witness: a client that received a message has been closed since, Close
\* has been called, and a pass is about to hand a message to the other client,
\* which waits in a read.
C19_Witness ==
    \E c, d \in Clients :
        /\ IsClosed(c)
        /\ recv[c] # <<>>
        /\ stop
        /\ actor.pc = "broadcast"
        /\ actor.cur = d
        /\ reading[d]

\* The clients the pass under way has not dealt with yet.
Left(a) == IF a.pc = "broadcast" THEN Cardinality(a.pending) + 1 ELSE 0

\* An event waits for run(): the stop signal, a request or a message.
EventWaits ==
    \/ stop
    \/ subscribingClients # <<>>
    \/ unsubscribingClients # <<>>
    \/ messages # <<>>

\* C20: in the running process (a panic ends it) a broadcast pass is never
\* stuck: its delivery attempt can end at once, by a waiting reader taking the
\* message or else by the timeout; every attempt that ends delivers or drops the
\* message for its client and leaves one client less to visit, so the pass is
\* over after one attempt per client; and run(), as long as it has not
\* returned, can handle an event that waits.
C20_ActorProgress ==
    /\ []((actor.pc = "broadcast" /\ ~crashed) =>
              /\ ENABLED (ActorSend \/ ActorSendTimeout)
              /\ ~reading[actor.cur] => ENABLED ActorSendTimeout)
    /\ []((actor.pc = "select" /\ ~crashed /\ EventWaits) => ENABLED ActorNext)
    /\ [][(actor.pc = "broadcast" /\ actor' # actor) =>
              /\ Left(actor') = Left(actor) - 1
              /\ \/ recv'[actor.cur] = Append(recv[actor.cur], actor.msg)
                 \/ dropped' = dropped \cup {<<actor.cur, actor.msg>>}]_vars

\* C20 witness: no client has ever read; the first message was dropped for the
\* one client there was, a second client was subscribed, the second message was
\* dropped for both, and run() has handled the stop signal and returned.
C20_Witness ==
    /\ \A c \in Clients : recv[c] = <<>> /\ ~reading[c]
    /\ Len(dequeued) = 2
    /\ Cardinality(snapshot[dequeued[1]]) = 1
    /\ Cardinality(snapshot[dequeued[2]]) = 2
    /\ Cardinality(dropped) = 3
    /\ actor.pc = "done"
    /\ ~crashed

HandOver ==
    /\ bufferSize = 0
    /\ Len(messages) = 1
    /\ actor.pc = "select"
    /\ ~ENABLED (ActorStop \/ ActorSubscribeCase \/ ActorUnsubscribeCase)

\* C22: the messages accepted and not yet dequeued are never more than the
\* capacity of the queue (a message in a direct hand-over to run() is with
\* run() already).  A Publish is accepted only with the queue below its capacity,
\* or, with capacity 0, by handing the message to run() waiting in its select;
\* while run() is busy or has returned and the queue is full, no Publish is
\* accepted.
C22_InboundQueueBound ==
    /\ [](Len(messages) <= bufferSize \/ HandOver)
    /\ [](\A t \in Threads :
              (call[t].op = "Publish" /\ actor.pc # "select"
                  /\ Len(messages) >= bufferSize) => ~ENABLED PublishSend(t))
    /\ [][\A t \in Threads : PublishSend(t) =>
              \/ Len(messages) < bufferSize
              \/ bufferSize = 0 /\ messages = <<>> /\ actor.pc = "select"]_vars

\* C22 witness: the queue has a buffer and holds as many messages as its
\* capacity, run() is not in its select, and a Publish waits.
C22_Witness ==
    /\ bufferSize = MaxBufferSize
    /\ Len(messages) = bufferSize
    /\ actor.pc # "select"
    /\ ~crashed
    /\ \E t \in Threads : call[t].op = "Publish"

\* C23: the unsubscribe case of run() takes the client c it was sent out of the
\* client set and closes it, and touches nothing else: every other client stays
\* in the set, no other channel is closed, nothing is received.  While run() is
\* in its loop every client of the set is open, and every pass that starts
\* later visits all the clients of the set, so the others are still served.
C23_UnsubscribeOnlyItsOwn ==
    /\ [][ActorUnsubscribeCase =>
              \E c \in Clients :
                  /\ c = Head(unsubscribingClients)
                  /\ clients' = clients \ {c}
                  /\ closes' = [closes EXCEPT ![c] = closes[c] + 1]
                  /\ recv' = recv
                  /\ reading' = reading]_vars
    /\ [](actor.pc # "done" => \A d \in clients : ~IsClosed(d))
    /\ [][\A m \in Msgs :
              (snapshot[m] = NotYet /\ snapshot'[m] # NotYet) =>
                  /\ snapshot'[m] = clients
                  /\ clients # {} =>
                        /\ actor'.pc = "broadcast"
                        /\ actor'.pending \cup {actor'.cur} = clients]_vars

\* C23 witness: c and d were both visited by the pass of the first message, c
\* has been unsubscribed and closed, and d alone was visited by the pass of the
\* second message and has received it.
C23_Witness ==
    \E c, d \in Clients :
        /\ c # d
        /\ Len(dequeued) = 2
        /\ snapshot[dequeued[1]] = {c, d}
        /\ snapshot[dequeued[2]] = {d}
        /\ c \in unsubscribed
        /\ IsClosed(c)
        /\ ~IsClosed(d)
        /\ dequeued[2] \in Range(recv[d])

\* C24: a client receives only messages that run() took out of broker.messages,
\* and each of them once; a message gets into broker.messages only by the send
\* of a Publish call that returns nil in the same step, and is there or was
\* taken out exactly once; run() takes out the oldest message of the channel,
\* and what a client receives is the message of the pass under way.  A message
\* whose Publish returned ErrTimeout is received by no client.
C24_MessageIntegrity ==
    /\ [](\A c \in Clients : \A m \in Range(recv[c]) :
              /\ Count(m, recv[c]) = 1
              /\ m \in Range(dequeued)
              /\ ~TimedOutMsg(m))
    /\ [](\A m \in Range(messages) \cup Range(dequeued) :
              /\ Count(m, messages) + Count(m, dequeued) = 1
              /\ m < nextMsg
              /\ \A t \in Threads : ~(call[t].op = "Publish" /\ call[t].arg = m))
    /\ [][\A m \in Msgs :
              (m \notin Range(messages) /\ m \in Range(messages')) =>
                  \E t \in Threads :
                      /\ PublishSend(t)
                      /\ call[t].arg = m
                      /\ Returns(t)
                      /\ Result(t) = "nil"]_vars
    /\ [][dequeued' # dequeued =>
              /\ messages # <<>>
              /\ dequeued' = Append(dequeued, Head(messages))
              /\ messages' = Tail(messages)]_vars
    /\ [][\A c \in Clients :
              recv'[c] # recv[c] =>
                  /\ actor.pc = "broadcast"
                  /\ actor.cur = c
                  /\ actor.msg = dequeued[Len(dequeued)]
                  /\ recv'[c] = Append(recv[c], actor.msg)]_vars

\* C24 witness: the Publish of one message has timed out, the other message was
\* accepted, and each of the two clients has received exactly that one.
C24_Witness ==
    /\ ~crashed
    /\ \E m1, m2 \in Msgs :
           /\ m1 # m2
           /\ TimedOutMsg(m1)
           /\ dequeued = <<m2>>
           /\ \A c \in Clients : recv[c] = <<m2>>

====
